---- MODULE Spec2Model ----
(***************************************************************************)
(* A model of contract-variable-tracer (ContractVariableTracer):           *)
(*   - the Value Sampler      trace(config, blockNumbers)                   *)
(*   - the Block-Range Scanner collectBlockNumbers(config)                  *)
(*   - the Live Watcher       watch(config, onNewValue, opts)               *)
(* and of the helpers chunk and dedup.  Decimal strings (block numbers and  *)
(* values are strings in the program) are sequences of character codes.     *)
(***************************************************************************)
EXTENDS Integers, Sequences, FiniteSets

(***************************************************************************)
(* Bounds of the model.                                                    *)
(***************************************************************************)
\* longest block list handed to trace
MaxLen == 4
\* largest concurrentCallBatchSize tried
MaxBatchSize == 3
\* the chunk sizes tried go down to -MaxBadSize
MaxBadSize == 1
\* largest element of an array handed to chunk or dedup (the smallest is 0)
MaxElem == 2
\* the chain the scanner sees: blocks FirstBlock .. FirstBlock + ChainLen - 1
\* (it holds the blocks 9 and 10, whose strings sort differently as text)
FirstBlock == 8
ChainLen == 5
\* largest maxBlockRangePerLogQuery tried
MaxSpan == 3
\* the spans tried without validation go down to -MaxBadSpan
MaxBadSpan == 1
\* sub-range queries followed in one scan (a scan whose cursor does not
\* advance would issue them without end)
MaxQueries == 5
\* invocations of onLogs that may be running at the same time
MaxHandlers == 2
\* most logs in one delivered batch
MaxBatchLen == 2
\* largest opts.maxRetries given explicitly (the default is DefaultMaxRetries)
MaxRetriesOpt == 0
\* subscription errors delivered in one run of the watcher
MaxSubErrors == 3
\* invocations of the subscription's onError that may be running at the same time
MaxErrHandlers == 2

(***************************************************************************)
(* Constants of the program.                                               *)
(***************************************************************************)
\* const { maxRetries = 3 } = opts
DefaultMaxRetries == 3
\* setTimeout(resolve, 1000 * (retryCount + 1))
RetryDelayMs == 1000
\* setTimeout(resolve, 5000) before the subscription is opened again
ReconnectDelayMs == 5000

(***************************************************************************)
(* Strings.                                                                *)
(***************************************************************************)
\* the character code of a decimal digit d ("0" is 48)
DigitChar(d) == 48 + d

\* the sentinel value 'ERROR' of a failed read, as character codes
ERROR == <<69, 82, 82, 79, 82>>

RECURSIVE toString(_)
\* bigint.toString() / number.toString(): the canonical decimal string of n >= 0
toString(n) ==
  IF n < 10 THEN <<DigitChar(n)>>
  ELSE Append(toString(n \div 10), DigitChar(n % 10))

RECURSIVE Number(_)
\* Number(s) / BigInt(s) of a decimal string
Number(s) ==
  IF Len(s) = 0 THEN 0
  ELSE 10 * Number(SubSeq(s, 1, Len(s) - 1)) + (s[Len(s)] - 48)

(***************************************************************************)
(* utils: chunk and dedup.                                                 *)
(***************************************************************************)
\* Array.prototype.slice(from, to) with 0-based from, exclusive to
Slice(array, from, to) ==
  SubSeq(array, from + 1, IF to > Len(array) THEN Len(array) ELSE to)

RECURSIVE chunkFrom_SkipsShort(_, _, _)
\* mutant of chunkFrom: a last chunk shorter than size is left out
chunkFrom_SkipsShort(array, size, from) ==
  IF from + size <= Len(array)
  THEN <<Slice(array, from, from + size)>> \o chunkFrom_SkipsShort(array, size, from + size)
  ELSE <<>>

RECURSIVE chunkFrom(_, _, _)
\* the for loop of chunk: i = from, from + size, ... while i < array.length
chunkFrom(array, size, from) ==
  IF from < Len(array)
  THEN <<Slice(array, from, from + size)>> \o chunkFrom(array, size, from + size)
  ELSE <<>>

\* chunk(array, size) for size > 0 (size <= 0 throws: see chunkThrows)
chunk(array, size) == chunkFrom(array, size, 0)

\* mutant of chunkThrows: the guard is left out
chunkThrows_Never(size) == FALSE

\* mutant of chunkThrows: a size of 0 passes the guard
chunkThrows_OnlyNegative(size) == size < 0

\* chunk throws 'Chunk size must be greater than 0'
chunkThrows(size) == size <= 0

\* the for loop of chunk never ends: i += size does not advance i
chunkLoops(array, size) == size <= 0 /\ Len(array) > 0

\* mutant of dedup: array[i] is compared with the last element kept
dedup_AgainstKept(array, compareFn) ==
  LET kept[i \in 1 .. Len(array)] ==
        IF i = 1 THEN <<array[1]>>
        ELSE IF ~compareFn[array[i], kept[i - 1][Len(kept[i - 1])]]
             THEN Append(kept[i - 1], array[i])
             ELSE kept[i - 1]
  IN IF Len(array) <= 1 THEN array ELSE kept[Len(array)]

\* dedup(array, compareFn): result starts as [array[0]]; for i = 1 .. length - 1
\* array[i] is pushed when compareFn(array[i], array[i - 1]) is false, that is,
\* compared with the previous INPUT element.  kept[i] is `result` after the
\* pass for the (1-based) index i.  compareFn is a function on pairs.
dedup(array, compareFn) ==
  LET kept[i \in 1 .. Len(array)] ==
        IF i = 1 THEN <<array[1]>>
        ELSE IF ~compareFn[array[i], array[i - 1]]
             THEN Append(kept[i - 1], array[i])
             ELSE kept[i - 1]
  IN IF Len(array) <= 1 THEN array ELSE kept[Len(array)]

\* mutant of FilterErrors: the sentinel rows are not filtered out
FilterErrors_Keep(values) == values

RECURSIVE FilterErrors(_)
\* allValues.filter((v) => v.value !== 'ERROR')
FilterErrors(values) ==
  IF values = <<>> THEN <<>>
  ELSE (IF Head(values).value # ERROR THEN <<Head(values)>> ELSE <<>>)
         \o FilterErrors(Tail(values))

(***************************************************************************)
(* State.                                                                  *)
(***************************************************************************)
VARIABLES
  \* ---- trace (Value Sampler) ----
  tracePc,                  \* "idle" | "entry" | "collecting" | "loop" | "await" | "done" | "thrown" | "chunkLoops"
  blockNumbersOrOnProgress, \* the second argument of trace: a block list, or a callback
  blockNumbers,             \* the block list sampled (decimal strings)
  concurrentCallBatchSize,  \* config.concurrentCallBatchSize
  isDedup,                  \* config.dedup
  chunks,                   \* chunk(blockNumbers, concurrentCallBatchSize)
  chunkIndex,               \* the loop variable i of trace (0-based)
  requests,                 \* the promises of the current batch: PENDING or a row
  allValues,                \* rows gathered so far
  traceResult,              \* what trace returned
  readLog,                  \* per position of blockNumbers: how its read ended
  \* ---- collectBlockNumbers (Block-Range Scanner) ----
  collectPc,                \* "idle" | "loop" | "done" | "thrown"
  fromBlock,                \* config.fromBlock
  toBlock,                  \* config.toBlock
  maxBlockRangePerLogQuery, \* config.maxBlockRangePerLogQuery
  logs,                     \* the chain: matching logs per block
  currentBlock,             \* the loop variable of collectBlockNumbers
  allBlockNumbers,          \* block numbers gathered so far (strings, with repeats)
  uniqueBlockNumbers,       \* what collectBlockNumbers returned
  queries,                  \* the getLogs ranges <<fromBlock, toBlock>> issued, in order
  \* ---- watch (Live Watcher) ----
  watchPc,                  \* "idle" | "starting" | "watching" (watch has returned)
  filterGiven,              \* opts.filter is supplied
  maxRetries,               \* opts.maxRetries, or its default
  currentValue,             \* let currentValue
  isWatching,               \* let isWatching
  unWatcher,                \* let unWatcher: a subscription's id, or 0 for undefined
  openSubs,                 \* the subscriptions opened and not unsubscribed
  handlers,                 \* the running invocations of onLogs, each with its loop state
  initErrors,               \* handleError calls made for the initial read
  lastNotified,             \* the curr of the last onNewValue call made (a record, not state)
  errHandlers,              \* the running invocations of the subscription's onError
  subErrors,                \* subscription errors delivered so far
  feedEvents,               \* what those invocations did, in order
  escaped,                  \* rejections that left a handler uncaught
  progress,                 \* the ProgressInfo events passed to onProgress, in order
  \* ---- a call of chunk or of dedup on its own ----
  utilPc,                   \* "idle" | "call" | "chunked" | "chunkThrown" | "chunkLoops" | "deduped"
  argArray,                 \* the argument `array`
  argSize,                  \* the argument `size` of chunk
  argCompareFn,             \* the argument `compareFn` of dedup
  returned                  \* what the call returned

traceVars == <<tracePc, blockNumbersOrOnProgress, blockNumbers, concurrentCallBatchSize, isDedup, chunks,
               chunkIndex, requests, allValues, traceResult, readLog>>

collectVars == <<collectPc, fromBlock, toBlock, maxBlockRangePerLogQuery, logs,
                 currentBlock, allBlockNumbers, uniqueBlockNumbers, queries>>

feedVars == <<errHandlers, subErrors, feedEvents, escaped>>

watchVars == <<watchPc, filterGiven, maxRetries, currentValue,
               isWatching, unWatcher, openSubs, handlers, initErrors, lastNotified, feedVars>>

utilVars == <<utilPc, argArray, argSize, argCompareFn, returned>>

vars == <<traceVars, collectVars, watchVars, progress, utilVars>>

(***************************************************************************)
(* The chain as trace sees it.                                             *)
(***************************************************************************)
\* the values a state read may return (bigint)
ReadValues == {10, 20}
\* how a state read can end: with a value, or by throwing
ReadOutcomes ==
  {[ok |-> TRUE, value |-> v] : v \in ReadValues} \cup {[ok |-> FALSE, value |-> 0]}
\* the blocks a supplied block list names
TraceBlocks == {9, 10}

RECURSIVE SeqsUpTo(_, _)
\* all sequences over S of length at most n
SeqsUpTo(S, n) ==
  IF n = 0 THEN {<<>>}
  ELSE LET shorter == SeqsUpTo(S, n - 1)
       IN shorter \cup {Append(s, x) : s \in {t \in shorter : Len(t) = n - 1}, x \in S}

BlockLists == SeqsUpTo({toString(b) : b \in TraceBlocks}, MaxLen)

\* readLog entries: the read of a position has not ended / ended with outcome o
NotRead == [read |-> FALSE, ok |-> FALSE, value |-> 0]
WasRead(o) == [read |-> TRUE, ok |-> o.ok, value |-> o.value]

ProgressInfo(key, current, total) ==
  [key |-> key, current |-> current, total |-> total]

(***************************************************************************)
(* chunk(array, size) and dedup(array, compareFn) called on their own.     *)
(***************************************************************************)
\* the elements of the arrays tried
Elems == 0 .. MaxElem
UtilArrays == SeqsUpTo(Elems, MaxLen)
\* the default compareFn of dedup: (a, b) => a === b
StrictEquals == [a \in Elems, b \in Elems |-> a = b]
\* a compareFn that is not transitive: the elements differ by at most 1
Near == [a \in Elems, b \in Elems |-> a - b \in {-1, 0, 1}]
CompareFns == {StrictEquals, Near}

UtilIdle ==
  /\ utilPc = "idle"
  /\ argArray = <<>>
  /\ argSize = 1
  /\ argCompareFn = StrictEquals
  /\ returned = <<>>

\* the arguments of a call
UtilInit ==
  /\ utilPc = "call"
  /\ argArray \in UtilArrays
  /\ argSize \in (-MaxBadSize) .. MaxBatchSize
  /\ argCompareFn \in CompareFns
  /\ returned = <<>>

\* chunk(argArray, argSize)
CallChunk ==
  /\ utilPc = "call"
  /\ IF chunkThrows(argSize)
     THEN utilPc' = "chunkThrown" /\ returned' = <<>>
     ELSE IF chunkLoops(argArray, argSize)
     THEN utilPc' = "chunkLoops" /\ returned' = <<>>
     ELSE utilPc' = "chunked" /\ returned' = chunk(argArray, argSize)
  /\ UNCHANGED <<argArray, argSize, argCompareFn>>
  /\ UNCHANGED <<traceVars, collectVars, watchVars, progress>>

\* dedup(argArray, argCompareFn)
CallDedup ==
  /\ utilPc = "call"
  /\ utilPc' = "deduped"
  /\ returned' = dedup(argArray, argCompareFn)
  /\ UNCHANGED <<argArray, argSize, argCompareFn>>
  /\ UNCHANGED <<traceVars, collectVars, watchVars, progress>>

UtilNext == CallChunk \/ CallDedup

(***************************************************************************)
(* watch(config, onNewValue, opts)                                         *)
(***************************************************************************)
\* the blocks whose logs the subscription delivers
WatchBlocks == {9, 10}
\* log.blockNumber of a pending log (null)
NullBlock == -1
\* what getBlockNumber() returns at start-up
LatestBlocks == {9}

\* `undefined` where a TraceResult is expected
Undefined == [blockNumber |-> <<>>, value |-> <<>>]
IsDefined(result) == result # Undefined

\* the values opts.initialValue takes when supplied
InitialValues == {[blockNumber |-> toString(9), value |-> toString(10)]}

\* what a call of opts.filter does
FilterVerdicts == {"accept", "reject", "throw"}

\* no call of onNewValue is running
NoCall == [prev |-> Undefined, curr |-> Undefined]

\* what one checkValueChange(blockNumber), with its retries, did: reads issued,
\* reads that threw, delays waited (ms), handleError and onNewValue calls made,
\* whether it replaced currentValue; the value of the last read that returned;
\* the filter's verdict ("none": not called); the arguments of the running
\* onNewValue; whether onNewValue threw; how the check ended ("none": it has
\* not).  A record of what happened, not state of the program.
NoObs ==
  [attempts |-> 0, failures |-> 0, waits |-> <<>>, errs |-> 0, notifs |-> 0,
   replaced |-> FALSE, readValue |-> <<>>, verdict |-> "none", call |-> NoCall,
   cbThrew |-> FALSE, end |-> "none"]

\* the invocation of onLogs whose checks are recorded: the one in slot 1 (the
\* slots are interchangeable; the others run the same code unrecorded)
Observed == CHOOSE h \in 1 .. MaxHandlers : \A g \in 1 .. MaxHandlers : h <= g
Obs(h, obs) == IF h = Observed THEN obs ELSE NoObs

\* an invocation of onLogs: "free" (none is running in this slot), "next" (at
\* the head of the for loop), "reading", "waiting" (retry delay), "callback"
\* (awaiting onNewValue); the logs left, the block and the retryCount of the
\* running checkValueChange
FreeHandler ==
  [pc |-> "free", queue |-> <<>>, blockNumber |-> 0, retryCount |-> 0, obs |-> NoObs]

\* handler h after its checkValueChange returned, obs being the record of it
EndCheck(h, obs) ==
  [pc |-> "next", queue |-> handlers[h].queue, blockNumber |-> 0,
   retryCount |-> 0, obs |-> Obs(h, obs)]

\* an invocation of the subscription's onError: "free" (none is running in this
\* slot), "handleError" (awaiting handleError), "wait" (the reconnect delay),
\* "onReconnect" (awaiting opts.onReconnect); id numbers the error it handles
FreeErrHandler == [pc |-> "free", id |-> 0]

\* no subscription error has been delivered
FeedIdle ==
  /\ errHandlers = [e \in 1 .. MaxErrHandlers |-> FreeErrHandler]
  /\ subErrors = 0
  /\ feedEvents = <<>>
  /\ escaped = 0

WatchIdle ==
  /\ FeedIdle
  /\ watchPc = "idle"
  /\ filterGiven = FALSE
  /\ maxRetries = DefaultMaxRetries
  /\ currentValue = Undefined
  /\ isWatching = FALSE
  /\ unWatcher = 0
  /\ openSubs = {}
  /\ handlers = [h \in 1 .. MaxHandlers |-> FreeHandler]
  /\ initErrors = 0
  /\ lastNotified = Undefined

\* the call of watch, lines 399-403
WatchInit ==
  /\ FeedIdle
  /\ watchPc = "starting"
  /\ filterGiven \in BOOLEAN
  /\ maxRetries \in (0 .. MaxRetriesOpt) \cup {DefaultMaxRetries}
  /\ currentValue \in InitialValues \cup {Undefined}
  /\ isWatching = TRUE
  /\ unWatcher = 0
  /\ openSubs = {}
  /\ handlers = [h \in 1 .. MaxHandlers |-> FreeHandler]
  /\ initErrors = 0
  /\ lastNotified = Undefined

\* the TraceResult of a read of `value` at block `blockNumber`
NewResult(blockNumber, value) ==
  [blockNumber |-> toString(blockNumber), value |-> toString(value)]

\* watchEvent(...): a new subscription; its id is the next unused one
NewSub == IF openSubs = {} /\ unWatcher = 0 THEN 1
          ELSE 1 + (CHOOSE m \in openSubs \cup {unWatcher} :
                      \A n \in openSubs \cup {unWatcher} : n <= m)

\* mutant of seedValue: a failed initial read leaves the sentinel row, as in trace
seedValue_Sentinel(outcome, latestBlock) ==
  IF outcome.ok THEN NewResult(latestBlock, outcome.value)
  ELSE [blockNumber |-> toString(latestBlock), value |-> ERROR]

\* lines 406-421: currentValue after the initial read at the latest block; when
\* getBlockNumber or the read throws nothing is assigned
seedValue(outcome, latestBlock) ==
  IF outcome.ok THEN NewResult(latestBlock, outcome.value) ELSE Undefined

\* lines 405-421 and 517-526: the initial value is read when none was given
\* (failure goes to handleError), the subscription is opened, watch returns
WatchStart ==
  /\ watchPc = "starting"
  /\ \E outcome \in ReadOutcomes, latestBlock \in LatestBlocks :
       IF IsDefined(currentValue)
       THEN /\ outcome.ok /\ outcome.value = 10
            /\ UNCHANGED <<currentValue, initErrors>>
       ELSE /\ currentValue' = seedValue(outcome, latestBlock)
            /\ initErrors' = IF outcome.ok THEN initErrors ELSE initErrors + 1
  /\ unWatcher' = NewSub
  /\ openSubs' = openSubs \cup {NewSub}
  /\ watchPc' = "watching"
  /\ UNCHANGED <<filterGiven, maxRetries, isWatching, handlers, lastNotified>>
  /\ UNCHANGED <<traceVars, collectVars, progress, feedVars, utilVars>>

\* the batches of logs a subscription may deliver (their block numbers)
LogBatches == SeqsUpTo(WatchBlocks \cup {NullBlock}, MaxBatchLen) \ {<<>>}

RECURSIVE dropNullLogs(_)
\* logs.filter((log) => log.blockNumber)
dropNullLogs(batch) ==
  IF batch = <<>> THEN <<>>
  ELSE (IF Head(batch) = NullBlock THEN <<>> ELSE <<Head(batch)>>)
         \o dropNullLogs(Tail(batch))

\* x put into the sorted logs: after every log whose block is not greater
insertLog(sorted, x) ==
  LET n == Cardinality({j \in 1 .. Len(sorted) : sorted[j] - x <= 0})
  IN SubSeq(sorted, 1, n) \o <<x>> \o SubSeq(sorted, n + 1, Len(sorted))

\* mutant of sortLogs: the logs are checked in the order of their delivery
sortLogs_AsDelivered(batch) == batch

RECURSIVE sortLogs(_)
\* .sort((a, b) => Number(a.blockNumber) - Number(b.blockNumber))
sortLogs(batch) ==
  IF batch = <<>> THEN <<>>
  ELSE insertLog(sortLogs(SubSeq(batch, 1, Len(batch) - 1)), batch[Len(batch)])

\* the first slot in which no onLogs is running
FreeSlot == CHOOSE h \in 1 .. MaxHandlers :
              /\ handlers[h].pc = "free"
              /\ \A g \in 1 .. h - 1 : handlers[g].pc # "free"

\* onLogs(logs), lines 489-496: nothing when the watcher was stopped, else the
\* logs with a block number, sorted, are queued for the for loop
OnLogs ==
  /\ watchPc = "watching"
  /\ \E h \in 1 .. MaxHandlers : handlers[h].pc = "free"
  /\ \E batch \in LogBatches :
       handlers' = [handlers EXCEPT ![FreeSlot] =
         IF ~isWatching
         THEN FreeHandler
         ELSE [FreeHandler EXCEPT !.pc = "next",
                                  !.queue = sortLogs(dropNullLogs(batch))]]
  /\ UNCHANGED <<watchPc, filterGiven, maxRetries, currentValue,
                 isWatching, unWatcher, openSubs, initErrors, lastNotified>>
  /\ UNCHANGED <<traceVars, collectVars, progress, feedVars, utilVars>>

\* mutant of returnsAtOnce: checkValueChange does not look at the flag
returnsAtOnce_Never(watching) == FALSE

\* line 428: if (!isWatching) return, the first statement of checkValueChange
returnsAtOnce(watching) == ~watching

\* the for loop takes the next log: checkValueChange(log.blockNumber) returns at
\* once when the watcher was stopped (line 428), else issues the read (line 431)
CheckStart ==
  \E h \in 1 .. MaxHandlers :
    /\ handlers[h].pc = "next"
    /\ handlers[h].queue # <<>>
    /\ handlers' = [handlers EXCEPT ![h] =
         IF returnsAtOnce(isWatching)
         THEN [pc |-> "next", queue |-> Tail(handlers[h].queue),
               blockNumber |-> 0, retryCount |-> 0,
               obs |-> Obs(h, [NoObs EXCEPT !.end = "stopped"])]
         ELSE [pc |-> "reading", queue |-> Tail(handlers[h].queue),
               blockNumber |-> Head(handlers[h].queue), retryCount |-> 0,
               obs |-> Obs(h, [NoObs EXCEPT !.attempts = 1])]]
    /\ UNCHANGED <<watchPc, filterGiven, maxRetries, currentValue,
                   isWatching, unWatcher, openSubs, initErrors, lastNotified>>
    /\ UNCHANGED <<traceVars, collectVars, progress, feedVars, utilVars>>

\* the for loop has no log left: onLogs returns
HandlerReturn ==
  \E h \in 1 .. MaxHandlers :
    /\ handlers[h].pc = "next"
    /\ handlers[h].queue = <<>>
    /\ handlers' = [handlers EXCEPT ![h] = FreeHandler]
    /\ UNCHANGED <<watchPc, filterGiven, maxRetries, currentValue,
                   isWatching, unWatcher, openSubs, initErrors, lastNotified>>
    /\ UNCHANGED <<traceVars, collectVars, progress, feedVars, utilVars>>

\* mutant of valueUnchanged: the early return of line 441 is left out
valueUnchanged_Never(current, newResult) == FALSE

\* line 441: currentValue && currentValue.value === newResult.value
valueUnchanged(current, newResult) ==
  IsDefined(current) /\ current.value = newResult.value

\* mutant of filterAdmits: currentValue is replaced and the callback invoked
\* whatever the filter says
filterAdmits_Always(given, verdict) == TRUE

\* line 444: !filter || filter(currentValue, newResult)
filterAdmits(given, verdict) == ~given \/ verdict = "accept"

\* mutant of mayRetry: one retry too many
mayRetry_OffByOne(retryCount) == retryCount <= maxRetries

\* line 465: retryCount < maxRetries
mayRetry(retryCount) == retryCount < maxRetries

RECURSIVE Pow2(_)
Pow2(n) == IF n = 0 THEN 1 ELSE 2 * Pow2(n - 1)

\* mutant of retryDelay: exponential backoff
retryDelay_Exponential(retryCount) == RetryDelayMs * Pow2(retryCount)

\* line 471: 1000 * (retryCount + 1)
retryDelay(retryCount) == RetryDelayMs * (retryCount + 1)

\* mutant of callArgs: the previous result is not handed over
callArgs_NoPrev(current, newResult) == [prev |-> Undefined, curr |-> newResult]

\* mutant of callArgs: prevValue taken after currentValue was replaced
callArgs_AfterAssign(current, newResult) == [prev |-> newResult, curr |-> newResult]

\* lines 445-448: prevValue = currentValue; onNewValue(prevValue, newResult)
callArgs(current, newResult) == [prev |-> current, curr |-> newResult]

\* the catch of lines 462-481 in handler h, whose record of the check is obs:
\* wait and retry, or handleError and the end of the check
CatchOf(h, obs) ==
  IF mayRetry(handlers[h].retryCount)
  THEN [handlers[h] EXCEPT
          !.pc = "waiting",
          !.obs = Obs(h, [obs EXCEPT
                    !.waits = Append(obs.waits, retryDelay(handlers[h].retryCount))])]
  ELSE EndCheck(h, [obs EXCEPT !.errs = obs.errs + 1, !.end = "error"])

\* the read of a check throws (lines 431-434, 462-481)
ReadThrows ==
  \E h \in 1 .. MaxHandlers :
    /\ handlers[h].pc = "reading"
    /\ handlers' = [handlers EXCEPT ![h] =
         CatchOf(h, [handlers[h].obs EXCEPT !.failures = @ + 1,
                                            !.readValue = <<>>,
                                            !.verdict = "none"])]
    /\ UNCHANGED <<watchPc, filterGiven, maxRetries, currentValue,
                   isWatching, unWatcher, openSubs, initErrors, lastNotified>>
    /\ UNCHANGED <<traceVars, collectVars, progress, feedVars, utilVars>>

\* the read of a check returns (lines 435-449): nothing more when the value is
\* the current one; else the filter, when given, is asked; when it admits the
\* change currentValue is replaced and onNewValue called with the previous and
\* the new result; when it throws the outer catch takes over
ReadReturns ==
  \E h \in 1 .. MaxHandlers, value \in ReadValues, verdict \in FilterVerdicts :
    /\ handlers[h].pc = "reading"
    /\ LET newResult == NewResult(handlers[h].blockNumber, value)
           obs == [handlers[h].obs EXCEPT !.readValue = newResult.value,
                                          !.verdict = "none"]
       IN IF valueUnchanged(currentValue, newResult)
          THEN /\ verdict = "accept"
               /\ handlers' = [handlers EXCEPT ![h] =
                                 EndCheck(h, [obs EXCEPT !.end = "unchanged"])]
               /\ UNCHANGED <<currentValue, lastNotified>>
          ELSE LET asked == [obs EXCEPT !.verdict = IF filterGiven THEN verdict ELSE "none"]
               IN /\ filterGiven \/ verdict = "accept"
                  /\ IF filterGiven /\ verdict = "throw"
                     THEN /\ handlers' = [handlers EXCEPT ![h] = CatchOf(h, asked)]
                          /\ UNCHANGED <<currentValue, lastNotified>>
                     ELSE IF filterAdmits(filterGiven, verdict)
                     THEN /\ currentValue' = newResult
                          /\ lastNotified' = callArgs(currentValue, newResult).curr
                          /\ handlers' = [handlers EXCEPT ![h].pc = "callback",
                                ![h].obs = Obs(h, [asked EXCEPT
                                   !.notifs = @ + 1,
                                   !.replaced = TRUE,
                                   !.call = callArgs(currentValue, newResult)])]
                     ELSE /\ handlers' = [handlers EXCEPT ![h] =
                                EndCheck(h, [asked EXCEPT !.end = "filtered"])]
                          /\ UNCHANGED <<currentValue, lastNotified>>
    /\ UNCHANGED <<watchPc, filterGiven, maxRetries, isWatching,
                   unWatcher, openSubs, initErrors>>
    /\ UNCHANGED <<traceVars, collectVars, progress, feedVars, utilVars>>

\* the retry delay is over: checkValueChange(blockNumber, retryCount + 1), which
\* returns at once when the watcher was stopped, else issues the read again
RetryTimer ==
  \E h \in 1 .. MaxHandlers :
    /\ handlers[h].pc = "waiting"
    /\ handlers' = [handlers EXCEPT ![h] =
         IF returnsAtOnce(isWatching)
         THEN EndCheck(h, [handlers[h].obs EXCEPT !.end = "stopped"])
         ELSE [@ EXCEPT !.pc = "reading",
                        !.retryCount = @ + 1,
                        !.obs = Obs(h, [@ EXCEPT !.attempts = @ + 1])]]
    /\ UNCHANGED <<watchPc, filterGiven, maxRetries, currentValue,
                   isWatching, unWatcher, openSubs, initErrors, lastNotified>>
    /\ UNCHANGED <<traceVars, collectVars, progress, feedVars, utilVars>>

\* mutant of callbackCaught: without the inner try/catch the throw of
\* onNewValue reaches the outer catch, which retries the check
callbackCaught_Outer(h, obs) == CatchOf(h, [obs EXCEPT !.call = NoCall])

\* lines 449-460: the throw of onNewValue goes to handleError and the check ends
callbackCaught(h, obs) ==
  EndCheck(h, [obs EXCEPT !.errs = @ + 1, !.call = NoCall, !.end = "notified"])

\* onNewValue settles (lines 448-460): a throw or rejection goes to handleError
\* and the check ends without a retry
CallbackSettles ==
  \E h \in 1 .. MaxHandlers, threw \in BOOLEAN :
    /\ handlers[h].pc = "callback"
    /\ handlers' = [handlers EXCEPT ![h] =
         IF threw
         THEN callbackCaught(h, [handlers[h].obs EXCEPT !.cbThrew = TRUE])
         ELSE EndCheck(h, [handlers[h].obs EXCEPT !.call = NoCall,
                                                  !.end = "notified"])]
    /\ UNCHANGED <<watchPc, filterGiven, maxRetries, currentValue,
                   isWatching, unWatcher, openSubs, initErrors, lastNotified>>
    /\ UNCHANGED <<traceVars, collectVars, progress, feedVars, utilVars>>

\* the cleanup function watch returned (lines 520-526)
Cancel ==
  /\ watchPc = "watching"
  /\ isWatching
  /\ isWatching' = FALSE
  /\ openSubs' = openSubs \ {unWatcher}
  /\ unWatcher' = 0
  /\ UNCHANGED <<watchPc, filterGiven, maxRetries, currentValue,
                 handlers, initErrors, lastNotified>>
  /\ UNCHANGED <<traceVars, collectVars, progress, feedVars, utilVars>>

(***************************************************************************)
(* The subscription's onError (lines 501-513).  It shares with the log path *)
(* only isWatching, which neither writes, and the subscription handle.      *)
(* opts.onError and opts.onReconnect are taken as supplied.                 *)
(***************************************************************************)
\* an entry of feedEvents: what invocation `id` did, and for a wait how long
FeedEvent(id, kind, ms) == [id |-> id, kind |-> kind, ms |-> ms]

\* the first slot in which no onError is running
FreeErrSlot == CHOOSE e \in 1 .. MaxErrHandlers :
                 /\ errHandlers[e].pc = "free"
                 /\ \A g \in 1 .. e - 1 : errHandlers[g].pc # "free"

\* mutant of reconnectDelay: the wait grows with the number of errors so far
reconnectDelay_Backoff(errorNo) == ReconnectDelayMs * errorNo

\* line 508: setTimeout(resolve, 5000), whatever the number of the error
reconnectDelay(errorNo) == ReconnectDelayMs

\* a subscription that is open reports an error: onError(error) starts and
\* calls handleError(error, onError, 'Event watching error') (line 502)
SubscriptionError ==
  /\ watchPc = "watching"
  /\ openSubs # {}
  /\ subErrors < MaxSubErrors
  /\ \E e \in 1 .. MaxErrHandlers : errHandlers[e].pc = "free"
  /\ subErrors' = subErrors + 1
  /\ errHandlers' = [errHandlers EXCEPT ![FreeErrSlot] =
                       [pc |-> "handleError", id |-> subErrors + 1]]
  /\ feedEvents' = Append(feedEvents, FeedEvent(subErrors + 1, "handleError", 0))
  /\ UNCHANGED <<watchPc, filterGiven, maxRetries, currentValue, isWatching,
                 unWatcher, openSubs, handlers, initErrors, lastNotified, escaped>>
  /\ UNCHANGED <<traceVars, collectVars, progress, utilVars>>

\* handleError has settled (a throw of opts.onError is caught inside it, lines
\* 542-546): the handler returns when the watcher was stopped (line 503), else
\* it starts the reconnect wait (lines 507-508)
ErrorReported ==
  \E e \in 1 .. MaxErrHandlers :
    /\ errHandlers[e].pc = "handleError"
    /\ IF ~isWatching
       THEN /\ errHandlers' = [errHandlers EXCEPT ![e] = FreeErrHandler]
            /\ UNCHANGED feedEvents
       ELSE /\ errHandlers' = [errHandlers EXCEPT ![e].pc = "wait"]
            /\ feedEvents' = Append(feedEvents,
                 FeedEvent(errHandlers[e].id, "wait", reconnectDelay(errHandlers[e].id)))
    /\ UNCHANGED <<watchPc, filterGiven, maxRetries, currentValue, isWatching,
                   unWatcher, openSubs, handlers, initErrors, lastNotified, subErrors, escaped>>
    /\ UNCHANGED <<traceVars, collectVars, progress, utilVars>>

\* mutant of reconnects: the flag is not looked at again after the wait
reconnects_Unchecked(watching) == TRUE

\* line 508: if (isWatching), asked again when the wait is over
reconnects(watching) == watching

\* the reconnect wait is over (lines 509-512): when the watcher is still live
\* startEventWatcher() opens a subscription and assigns it to unWatcher (the
\* one unWatcher held is not unsubscribed), then opts.onReconnect is called
ReconnectTimer ==
  \E e \in 1 .. MaxErrHandlers :
    /\ errHandlers[e].pc = "wait"
    /\ IF ~reconnects(isWatching)
       THEN /\ errHandlers' = [errHandlers EXCEPT ![e] = FreeErrHandler]
            /\ UNCHANGED <<feedEvents, unWatcher, openSubs>>
       ELSE /\ unWatcher' = NewSub
            /\ openSubs' = openSubs \cup {NewSub}
            /\ errHandlers' = [errHandlers EXCEPT ![e].pc = "onReconnect"]
            /\ feedEvents' = feedEvents \o
                 <<FeedEvent(errHandlers[e].id, "open", 0),
                   FeedEvent(errHandlers[e].id, "onReconnect", 0)>>
    /\ UNCHANGED <<watchPc, filterGiven, maxRetries, currentValue, isWatching,
                   handlers, initErrors, lastNotified, subErrors, escaped>>
    /\ UNCHANGED <<traceVars, collectVars, progress, utilVars>>

\* opts.onReconnect settles (line 511): nothing catches its throw or
\* rejection, which leaves onError as an uncaught rejection
ReconnectSettles ==
  \E e \in 1 .. MaxErrHandlers, threw \in BOOLEAN :
    /\ errHandlers[e].pc = "onReconnect"
    /\ errHandlers' = [errHandlers EXCEPT ![e] = FreeErrHandler]
    /\ escaped' = IF threw THEN escaped + 1 ELSE escaped
    /\ UNCHANGED <<watchPc, filterGiven, maxRetries, currentValue, isWatching,
                   unWatcher, openSubs, handlers, initErrors, lastNotified, subErrors, feedEvents>>
    /\ UNCHANGED <<traceVars, collectVars, progress, utilVars>>

FeedNext ==
  \/ WatchStart
  \/ SubscriptionError
  \/ ErrorReported
  \/ ReconnectTimer
  \/ ReconnectSettles
  \/ Cancel

WatchNext ==
  \/ WatchStart
  \/ OnLogs
  \/ CheckStart
  \/ HandlerReturn
  \/ ReadThrows
  \/ ReadReturns
  \/ RetryTimer
  \/ CallbackSettles
  \/ Cancel

(***************************************************************************)
(* collectBlockNumbers(config, onProgress)                                 *)
(***************************************************************************)
\* the blocks of the chain
Blocks == FirstBlock .. (FirstBlock + ChainLen - 1)
\* how many matching logs a block may carry
LogCounts == {0, 1, 2}

CollectIdle ==
  /\ collectPc = "idle"
  /\ fromBlock = 0
  /\ toBlock = 0
  /\ maxBlockRangePerLogQuery = 1
  /\ logs = [b \in Blocks |-> 0]
  /\ currentBlock = 0
  /\ allBlockNumbers = <<>>
  /\ uniqueBlockNumbers = <<>>
  /\ queries = <<>>

\* the call, up to the for loop
CollectInit ==
  /\ fromBlock \in Blocks
  /\ toBlock \in Blocks
  /\ fromBlock < toBlock
  /\ maxBlockRangePerLogQuery \in 1 .. MaxSpan
  /\ logs \in [Blocks -> LogCounts]
  /\ currentBlock = fromBlock
  /\ allBlockNumbers = <<>>
  /\ uniqueBlockNumbers = <<>>
  /\ queries = <<>>
  /\ collectPc = "loop"
  /\ progress = <<>>

\* the call with a config that nobody validated: lines 157-173 take fromBlock,
\* toBlock and maxBlockRangePerLogQuery as they come
CollectAnyInit ==
  /\ fromBlock \in Blocks
  /\ toBlock \in Blocks
  /\ maxBlockRangePerLogQuery \in (-MaxBadSpan) .. MaxSpan
  /\ logs \in [Blocks -> LogCounts]
  /\ currentBlock = fromBlock
  /\ allBlockNumbers = <<>>
  /\ uniqueBlockNumbers = <<>>
  /\ queries = <<>>
  /\ collectPc = "loop"
  /\ progress = <<>>

\* n copies of x
Repeat(x, n) == [j \in 1 .. n |-> x]

RECURSIVE getBlockNumbersFromLogs(_, _)
\* publicClient.getLogs over the INCLUSIVE range from .. to, each log mapped
\* to its block number's string (one entry per log, in chain order)
getBlockNumbersFromLogs(from, to) ==
  IF from > to THEN <<>>
  ELSE (IF from \in Blocks THEN Repeat(toString(from), logs[from]) ELSE <<>>)
         \o getBlockNumbersFromLogs(from + 1, to)

\* the end of the sub-range queried at cursor
endBlockOf(cursor) ==
  IF cursor + maxBlockRangePerLogQuery > toBlock
  THEN toBlock
  ELSE cursor + maxBlockRangePerLogQuery

\* mutant of concatResults: the new sub-range's blocks replace the earlier ones
concatResults_Overwrite(all, new) == new

\* allBlockNumbers = allBlockNumbers.concat(blockNumbers)
concatResults(all, new) == all \o new

RECURSIVE uniqueInOrder(_)
\* [...new Set(array)]: the distinct strings, in order of first occurrence
uniqueInOrder(array) ==
  IF array = <<>> THEN <<>>
  ELSE LET init == uniqueInOrder(SubSeq(array, 1, Len(array) - 1))
           last == array[Len(array)]
       IN IF \E j \in 1 .. Len(init) : init[j] = last THEN init ELSE Append(init, last)

RECURSIVE lexCompare(_, _)
\* mutant of compareBlockNumbers: the default sort order of strings (by character)
lexCompare(a, b) ==
  IF a = <<>> THEN (IF b = <<>> THEN 0 ELSE -1)
  ELSE IF b = <<>> THEN 1
  ELSE IF Head(a) # Head(b) THEN Head(a) - Head(b)
  ELSE lexCompare(Tail(a), Tail(b))

\* the comparator of the sort: (a, b) => Number(a) - Number(b)
compareBlockNumbers(a, b) == Number(a) - Number(b)

\* x put into the sorted sequence: after every element not greater than it
insertSorted(sorted, x) ==
  LET before == {j \in 1 .. Len(sorted) : compareBlockNumbers(sorted[j], x) <= 0}
      n == Cardinality(before)
  IN SubSeq(sorted, 1, n) \o <<x>> \o SubSeq(sorted, n + 1, Len(sorted))

RECURSIVE sortBlockNumbers(_)
\* array.sort(comparator) (a stable sort)
sortBlockNumbers(array) ==
  IF array = <<>> THEN <<>>
  ELSE insertSorted(sortBlockNumbers(SubSeq(array, 1, Len(array) - 1)), array[Len(array)])

\* mutant of scanCurrent: the cursor itself is reported
scanCurrent_Absolute(cursor) == cursor

\* line 180: current: currentBlock - fromBlock
scanCurrent(cursor) == cursor - fromBlock

\* mutant of queryRejection: the failure is swallowed and the loop goes on
queryRejection_Swallowed == "loop"

\* lines 188-193: the awaited query is in no try block, so that its rejection
\* is the rejection of collectBlockNumbers
queryRejection == "thrown"

\* one pass of the loop: the progress event, the sub-range query, the concat,
\* the cursor advanced by maxBlockRangePerLogQuery
CollectQuery ==
  /\ collectPc = "loop"
  /\ currentBlock < toBlock
  /\ Len(queries) < MaxQueries
  /\ progress' = Append(progress,
       ProgressInfo("collectBlockNumbers", scanCurrent(currentBlock), toBlock - fromBlock))
  /\ queries' = Append(queries, <<currentBlock, endBlockOf(currentBlock)>>)
  /\ allBlockNumbers' = concatResults(allBlockNumbers,
       getBlockNumbersFromLogs(currentBlock, endBlockOf(currentBlock)))
  /\ currentBlock' = currentBlock + maxBlockRangePerLogQuery
  /\ UNCHANGED <<collectPc, fromBlock, toBlock, maxBlockRangePerLogQuery, logs,
                 uniqueBlockNumbers>>
  /\ UNCHANGED <<traceVars, watchVars, utilVars>>

\* the sub-range query throws: collectBlockNumbers rejects with that error
CollectQueryThrows ==
  /\ collectPc = "loop"
  /\ currentBlock < toBlock
  /\ Len(queries) < MaxQueries
  /\ progress' = Append(progress,
       ProgressInfo("collectBlockNumbers", scanCurrent(currentBlock), toBlock - fromBlock))
  /\ queries' = Append(queries, <<currentBlock, endBlockOf(currentBlock)>>)
  /\ collectPc' = queryRejection
  /\ UNCHANGED <<fromBlock, toBlock, maxBlockRangePerLogQuery, logs, currentBlock,
                 allBlockNumbers, uniqueBlockNumbers>>
  /\ UNCHANGED <<traceVars, watchVars, utilVars>>

\* the loop has ended: the 100% event, the duplicates removed, the sort, return
CollectReturn ==
  /\ collectPc = "loop"
  /\ currentBlock >= toBlock
  /\ progress' = Append(progress,
       ProgressInfo("collectBlockNumbers", toBlock - fromBlock, toBlock - fromBlock))
  /\ uniqueBlockNumbers' = sortBlockNumbers(uniqueInOrder(allBlockNumbers))
  /\ collectPc' = "done"
  /\ UNCHANGED <<fromBlock, toBlock, maxBlockRangePerLogQuery, logs, currentBlock,
                 allBlockNumbers, queries>>
  /\ UNCHANGED <<traceVars, watchVars, utilVars>>

CollectNext == CollectQuery \/ CollectQueryThrows \/ CollectReturn

(***************************************************************************)
(* trace(config, blockNumbers, onProgress)                                 *)
(***************************************************************************)
\* the second argument of trace when it is the block list `list`
ArrayArg(list) == [isArray |-> TRUE, list |-> list]
\* the second argument of trace when it is the onProgress callback (or absent)
OnProgressArg == [isArray |-> FALSE, list |-> <<>>]

TraceIdle ==
  /\ tracePc = "idle"
  /\ blockNumbersOrOnProgress = ArrayArg(<<>>)
  /\ blockNumbers = <<>>
  /\ concurrentCallBatchSize = 1
  /\ isDedup = TRUE
  /\ chunks = <<>>
  /\ chunkIndex = 0
  /\ requests = <<>>
  /\ allValues = <<>>
  /\ traceResult = <<>>
  /\ readLog = <<>>

\* the call, up to the for loop: the overload with a block list, then chunk()
TraceInit ==
  /\ blockNumbers \in BlockLists
  /\ blockNumbersOrOnProgress = ArrayArg(blockNumbers)
  /\ concurrentCallBatchSize \in 1 .. MaxBatchSize
  /\ isDedup \in BOOLEAN
  /\ chunks = chunk(blockNumbers, concurrentCallBatchSize)
  /\ tracePc = "loop"
  /\ chunkIndex = 0
  /\ requests = <<>>
  /\ allValues = <<>>
  /\ traceResult = <<>>
  /\ readLog = [p \in 1 .. Len(blockNumbers) |-> NotRead]
  /\ progress = <<>>

\* the row a settled read leaves: the value's string, or the sentinel
ReadRow(blockNumber, outcome) ==
  [blockNumber |-> blockNumber,
   value |-> IF outcome.ok THEN toString(outcome.value) ELSE ERROR]

\* a promise of the batch: unsettled, or settled with its row
Pending(blockNumber) == [settled |-> FALSE, row |-> ReadRow(blockNumber, [ok |-> FALSE, value |-> 0])]
Settled(row) == [settled |-> TRUE, row |-> row]

\* one pass of the loop body up to `await Promise.all(requests)`: the progress
\* event, the reads of the whole chunk issued at once, the '100%' event
TraceBatchStart ==
  /\ tracePc = "loop"
  /\ chunkIndex < Len(chunks)
  /\ progress' = progress \o
       <<ProgressInfo("trace", chunkIndex * concurrentCallBatchSize, Len(blockNumbers)),
         ProgressInfo("trace", Len(blockNumbers), Len(blockNumbers))>>
  /\ requests' = [k \in 1 .. Len(chunks[chunkIndex + 1]) |->
                    Pending(chunks[chunkIndex + 1][k])]
  /\ tracePc' = "await"
  /\ UNCHANGED <<blockNumbersOrOnProgress, blockNumbers, concurrentCallBatchSize, isDedup, chunks, chunkIndex,
                 allValues, traceResult, readLog>>
  /\ UNCHANGED <<collectVars, watchVars, utilVars>>

\* one read of the batch settles, in any order: a value, or a throw that the
\* request's own catch turns into the sentinel row
ReadSettle ==
  /\ tracePc = "await"
  /\ \E k \in 1 .. Len(requests) :
       /\ ~requests[k].settled
       /\ \E outcome \in ReadOutcomes :
            /\ requests' = [requests EXCEPT
                  ![k] = Settled(ReadRow(chunks[chunkIndex + 1][k], outcome))]
            /\ readLog' = [readLog EXCEPT
                  ![chunkIndex * concurrentCallBatchSize + k] = WasRead(outcome)]
  /\ UNCHANGED <<tracePc, blockNumbersOrOnProgress, blockNumbers, concurrentCallBatchSize, isDedup, chunks,
                 chunkIndex, allValues, traceResult, progress>>
  /\ UNCHANGED <<collectVars, watchVars, utilVars>>

\* mutant of allSettled: the join is passed as soon as one request has settled
allSettled_Race(reqs) == \E k \in 1 .. Len(reqs) : reqs[k].settled

\* line 311: Promise.all(requests) resolves when every request has settled
\* (none rejects: each request catches its own failure, lines 291-300)
allSettled(reqs) == \A k \in 1 .. Len(reqs) : reqs[k].settled

\* Promise.all resolves (every request settled): concat in request order, i++
TraceBatchJoin ==
  /\ tracePc = "await"
  /\ allSettled(requests)
  /\ allValues' = allValues \o [k \in 1 .. Len(requests) |-> requests[k].row]
  /\ chunkIndex' = chunkIndex + 1
  /\ requests' = <<>>
  /\ tracePc' = "loop"
  /\ UNCHANGED <<blockNumbersOrOnProgress, blockNumbers, concurrentCallBatchSize, isDedup, chunks, traceResult,
                 readLog, progress>>
  /\ UNCHANGED <<collectVars, watchVars, utilVars>>

\* every row a read can leave
Rows ==
  [blockNumber : {toString(b) : b \in TraceBlocks \cup Blocks},
   value : {toString(v) : v \in ReadValues} \cup {ERROR}]

\* the comparison trace hands to dedup: (a, b) => a.value === b.value
SameValue == [a \in Rows, b \in Rows |-> a.value = b.value]

\* mutant of TraceFinal: the dedup step is left out
TraceFinal_NoDedup(values, dedupOn) == FilterErrors(values)

\* what trace returns from the rows gathered: sentinel rows out, then dedup
TraceFinal(values, dedupOn) ==
  LET kept == FilterErrors(values)
  IN IF dedupOn THEN dedup(kept, SameValue) ELSE kept

\* the loop has ended: filter, dedup, return
TraceReturn ==
  /\ tracePc = "loop"
  /\ chunkIndex >= Len(chunks)
  /\ traceResult' = TraceFinal(allValues, isDedup)
  /\ tracePc' = "done"
  /\ UNCHANGED <<blockNumbersOrOnProgress, blockNumbers, concurrentCallBatchSize, isDedup, chunks, chunkIndex,
                 requests, allValues, readLog, progress>>
  /\ UNCHANGED <<collectVars, watchVars, utilVars>>

TraceNext == TraceBatchStart \/ ReadSettle \/ TraceBatchJoin \/ TraceReturn

(***************************************************************************)
(* trace as it is called: both overloads, the scan included.  The method   *)
(* that methodAbi names is taken to exist on the contract.                  *)
(***************************************************************************)
\* the chains tried: which of the blocks after FirstBlock carry logs (the
\* second block carries two)
CallChains ==
  {[b \in Blocks |-> IF b \in S THEN (IF b = FirstBlock + 1 THEN 2 ELSE 1) ELSE 0] :
     S \in SUBSET ((FirstBlock + 1) .. (FirstBlock + 3))}

\* the call of trace: its second argument is a block list or not; with a list
\* the span of config is read by nothing and one config is tried
TraceCallInit ==
  /\ tracePc = "entry"
  /\ blockNumbersOrOnProgress \in {ArrayArg(l) : l \in BlockLists} \cup {OnProgressArg}
  /\ concurrentCallBatchSize \in (-MaxBadSize) .. MaxBatchSize
  /\ isDedup \in BOOLEAN
  /\ blockNumbers = <<>>
  /\ chunks = <<>>
  /\ chunkIndex = 0
  /\ requests = <<>>
  /\ allValues = <<>>
  /\ traceResult = <<>>
  /\ readLog = <<>>
  /\ collectPc = "idle"
  /\ fromBlock = FirstBlock
  /\ toBlock \in (FirstBlock + 2) .. (FirstBlock + 4)
  /\ maxBlockRangePerLogQuery \in 1 .. MaxSpan
  /\ logs \in CallChains
  /\ blockNumbersOrOnProgress.isArray =>
       /\ toBlock = FirstBlock + 4
       /\ maxBlockRangePerLogQuery = MaxSpan
       /\ \A b \in (FirstBlock + 1) .. (FirstBlock + 3) : logs[b] > 0
  /\ currentBlock = 0
  /\ allBlockNumbers = <<>>
  /\ uniqueBlockNumbers = <<>>
  /\ queries = <<>>
  /\ progress = <<>>

\* mutant of callsScanner: the scan is made whatever the second argument is
callsScanner_Always(isArray) == TRUE

\* lines 240-245: collectBlockNumbers is called unless a block list was passed
callsScanner(isArray) == ~isArray

\* mutant of sampledList: the second argument is sampled, scan or no scan
sampledList_Argument(arg, scanned) == arg.list

\* lines 240-245: the list sampled is the one passed, else the one
\* collectBlockNumbers returned
sampledList(arg, scanned) == IF arg.isArray THEN arg.list ELSE scanned

\* lines 247-280: chunk(blockNumbers, concurrentCallBatchSize), which throws
\* for a size <= 0, and the set-up of the loop
StartSampling(list) ==
  /\ blockNumbers' = list
  /\ IF chunkThrows(concurrentCallBatchSize)
     THEN /\ tracePc' = "thrown"
          /\ UNCHANGED <<chunks, readLog>>
     ELSE IF chunkLoops(list, concurrentCallBatchSize)
     THEN /\ tracePc' = "chunkLoops"
          /\ UNCHANGED <<chunks, readLog>>
     ELSE /\ tracePc' = "loop"
          /\ chunks' = chunk(list, concurrentCallBatchSize)
          /\ readLog' = [p \in 1 .. Len(list) |-> NotRead]
  /\ UNCHANGED <<blockNumbersOrOnProgress, concurrentCallBatchSize, isDedup,
                 chunkIndex, requests, allValues, traceResult, progress>>

\* lines 235-245: with a block list trace goes on to sample it; without one it
\* calls collectBlockNumbers(config, onProgress) and awaits it
TraceEntry ==
  /\ tracePc = "entry"
  /\ IF callsScanner(blockNumbersOrOnProgress.isArray)
     THEN /\ tracePc' = "collecting"
          /\ collectPc' = "loop"
          /\ currentBlock' = fromBlock
          /\ UNCHANGED <<blockNumbersOrOnProgress, blockNumbers,
                         concurrentCallBatchSize, isDedup, chunks, chunkIndex,
                         requests, allValues, traceResult, readLog, progress>>
          /\ UNCHANGED <<fromBlock, toBlock, maxBlockRangePerLogQuery, logs,
                         allBlockNumbers, uniqueBlockNumbers, queries>>
     ELSE /\ StartSampling(sampledList(blockNumbersOrOnProgress, uniqueBlockNumbers))
          /\ UNCHANGED collectVars
  /\ UNCHANGED <<watchVars, utilVars>>

\* collectBlockNumbers has returned: trace samples the list it returned
TraceScanned ==
  /\ tracePc = "collecting"
  /\ collectPc = "done"
  /\ StartSampling(sampledList(blockNumbersOrOnProgress, uniqueBlockNumbers))
  /\ UNCHANGED <<collectVars, watchVars, utilVars>>

\* collectBlockNumbers has rejected: so does trace
TraceScanThrown ==
  /\ tracePc = "collecting"
  /\ collectPc = "thrown"
  /\ tracePc' = "thrown"
  /\ UNCHANGED <<blockNumbersOrOnProgress, blockNumbers, concurrentCallBatchSize,
                 isDedup, chunks, chunkIndex, requests, allValues, traceResult,
                 readLog, progress>>
  /\ UNCHANGED <<collectVars, watchVars, utilVars>>

TraceCallNext ==
  \/ TraceEntry
  \/ CollectNext
  \/ TraceScanned
  \/ TraceScanThrown
  \/ TraceNext

SpecTraceCallInit == TraceCallInit /\ WatchIdle /\ UtilIdle

SpecTraceCall == SpecTraceCallInit /\ [][TraceCallNext]_vars

SpecTraceInit == TraceInit /\ CollectIdle /\ WatchIdle /\ UtilIdle

SpecTrace == SpecTraceInit /\ [][TraceNext]_vars

(***************************************************************************)
(* Claims about trace.                                                     *)
(***************************************************************************)
\* the positions of blockNumbers whose read succeeded, ascending
RECURSIVE OkRowsFrom(_)
OkRowsFrom(p) ==
  IF p > Len(blockNumbers) THEN <<>>
  ELSE (IF readLog[p].ok
        THEN <<[blockNumber |-> blockNumbers[p], value |-> toString(readLog[p].value)]>>
        ELSE <<>>) \o OkRowsFrom(p + 1)

\* the rows of the blocks whose read succeeded, in input order
OkRows == OkRowsFrom(1)

\* the number of places where the value changes between neighbours of rows
Changes(rows) == Cardinality({j \in 2 .. Len(rows) : rows[j].value # rows[j - 1].value})

\* C1: whatever reads throw, trace returns, and returns exactly the rows of the
\* blocks whose read succeeded, in input order (compacted when dedup is on);
\* no returned row carries the sentinel 'ERROR'.
C1_FailedReadsAreDropped ==
  /\ tracePc # "done" => ENABLED TraceNext
  /\ tracePc = "done" =>
       /\ traceResult = (IF isDedup THEN dedup(OkRows, SameValue) ELSE OkRows)
       /\ \A j \in 1 .. Len(traceResult) :
            /\ traceResult[j].value # ERROR
            /\ \E p \in 1 .. Len(blockNumbers) :
                 readLog[p].ok /\ blockNumbers[p] = traceResult[j].blockNumber

\* C1 witness: readBatchSize 2, three blocks, the read of the second throws,
\* and the two other rows are returned
C1_Witness ==
  /\ tracePc = "done"
  /\ ~isDedup
  /\ concurrentCallBatchSize = 2
  /\ Len(blockNumbers) = 3
  /\ readLog[1].ok /\ ~readLog[2].ok /\ readLog[3].ok
  /\ Len(traceResult) = 2
  /\ traceResult[1].blockNumber = blockNumbers[1]
  /\ traceResult[2].blockNumber = blockNumbers[3]

\* the rows of the end-to-end example, values 10,10,10,20,20,10
ExampleRows ==
  [j \in 1 .. 6 |->
     [blockNumber |-> toString(9),
      value |-> toString(<<10, 10, 10, 20, 20, 10>>[j])]]

\* C2: with dedup on, the result has no two consecutive rows of equal value,
\* whatever the reads returned and whichever failed; every change of value
\* between neighbouring successful reads is kept (so a value that comes back
\* later is kept): 10,10,10,20,20,10 gives 10,20,10.
C2_NoConsecutiveEqual ==
  /\ (tracePc = "done" /\ isDedup) =>
       /\ \A j \in 1 .. Len(traceResult) - 1 :
            traceResult[j].value # traceResult[j + 1].value
       /\ Len(traceResult) = (IF OkRows = <<>> THEN 0 ELSE 1 + Changes(OkRows))
  /\ LET out == TraceFinal(ExampleRows, TRUE)
     IN [j \in 1 .. Len(out) |-> out[j].value]
          = <<toString(10), toString(20), toString(10)>>

\* C2 witness: reads 10, throw, 10, 20 with dedup on: the two 10s became
\* neighbours only because the failed block was dropped, and one is returned
C2_Witness ==
  /\ tracePc = "done"
  /\ isDedup
  /\ Len(blockNumbers) = 4
  /\ readLog[1].ok /\ readLog[1].value = 10
  /\ ~readLog[2].ok
  /\ readLog[3].ok /\ readLog[3].value = 10
  /\ readLog[4].ok /\ readLog[4].value = 20
  /\ Len(traceResult) = 2

\* the events of the sampling stage that signal its completion
CompletionEvents ==
  {j \in 1 .. Len(progress) :
     progress[j].key = "trace" /\ progress[j].current = progress[j].total}

\* C24: in one run of trace the sampling stage (key 'trace') emits exactly one
\* progress event with current = total, for any number of batches: one batch,
\* many batches, and an empty block list.
C24_CompletionOnce ==
  tracePc = "done" => Cardinality(CompletionEvents) = 1

\* the positions of the block list whose state read has been issued
IssuedReads ==
  {p \in 1 .. Len(readLog) :
     p <= chunkIndex * concurrentCallBatchSize
            + (IF tracePc = "await" THEN Len(requests) ELSE 0)}

\* the reads issued and not settled
InFlight == {p \in IssuedReads : ~readLog[p].read}

\* the batch (0-based) that position p of the block list belongs to
BatchOf(p) == (p - 1) \div concurrentCallBatchSize

\* C26: at every moment of a trace at most concurrentCallBatchSize state reads
\* are in flight, and no read of batch i + 1 is issued before every read of
\* batch i has settled, with a value or with a failure: the reads in flight
\* all belong to the batch being awaited, and a batch is started only when
\* every read issued before it has settled.
C26_BatchSequential ==
  /\ [](/\ Cardinality(InFlight) <= concurrentCallBatchSize
        /\ \A p \in InFlight : tracePc = "await" /\ BatchOf(p) = chunkIndex
        /\ \A p \in IssuedReads, q \in 1 .. Len(readLog) :
              (BatchOf(q) < BatchOf(p)) => readLog[q].read
        /\ tracePc = "done" => \A p \in 1 .. Len(readLog) : readLog[p].read)
  /\ [][(tracePc = "loop" /\ tracePc' = "await") =>
          /\ InFlight = {}
          /\ InFlight' = {p \in 1 .. Len(readLog) : BatchOf(p) = chunkIndex}
          /\ \A q \in 1 .. Len(readLog) : BatchOf(q) < chunkIndex => readLog[q].read]_vars

\* with a batch size of 2 the two reads of the second batch are in flight, and
\* the reads of the first batch have settled, one of them with a failure
C26_Witness ==
  /\ tracePc = "await"
  /\ concurrentCallBatchSize = 2
  /\ Len(blockNumbers) = 4
  /\ chunkIndex = 1
  /\ InFlight = {3, 4}
  /\ readLog[1].read /\ readLog[1].ok
  /\ readLog[2].read /\ ~readLog[2].ok

\* C36: progress is monotonic: within each stage of a trace (the scan, key
\* 'collectBlockNumbers', and the sampling, key 'trace') the current values
\* of successive progress events never decrease.
C36_ProgressMonotonic ==
  \A i, j \in 1 .. Len(progress) :
    (i < j /\ progress[i].key = progress[j].key) =>
      progress[i].current <= progress[j].current

\* C37: the 100% event of the sampling stage is emitted after the last batch
\* has completed: no progress event with current = total has been emitted
\* while a state read of the trace is in flight or not yet issued.
C37_CompletionAfterReads ==
  CompletionEvents # {} =>
    /\ InFlight = {}
    /\ IssuedReads = 1 .. Len(blockNumbers)

SpecCollectInit == CollectInit /\ TraceIdle /\ WatchIdle /\ UtilIdle

SpecCollect == SpecCollectInit /\ [][CollectNext]_vars

SpecCollectAnyInit == CollectAnyInit /\ TraceIdle /\ WatchIdle /\ UtilIdle

SpecCollectAny == SpecCollectAnyInit /\ [][CollectNext]_vars

(***************************************************************************)
(* Claims about collectBlockNumbers.                                       *)
(***************************************************************************)
\* the blocks of the chain that carry at least one matching log
LogBlocks == {b \in Blocks : logs[b] > 0}

\* the numbers of the returned strings
ReturnedBlocks == {Number(uniqueBlockNumbers[j]) : j \in 1 .. Len(uniqueBlockNumbers)}

\* C3: the sequence collectBlockNumbers returns is strictly ascending by numeric
\* value (so it has no duplicates), also when logs share a block and when a
\* block is returned by two sub-range queries.
C3_StrictlyAscending ==
  collectPc = "done" =>
    \A j \in 1 .. Len(uniqueBlockNumbers) - 1 :
      Number(uniqueBlockNumbers[j]) < Number(uniqueBlockNumbers[j + 1])

\* C3 witness: blocks 9 and 10 are returned in this order ("10" sorts before
\* "9" as text), a block carries two logs, and a block with a log was returned
\* by two sub-range queries
C3_Witness ==
  /\ collectPc = "done"
  /\ \E j \in 1 .. Len(uniqueBlockNumbers) - 1 :
       uniqueBlockNumbers[j] = toString(9) /\ uniqueBlockNumbers[j + 1] = toString(10)
  /\ \E b \in LogBlocks : logs[b] = 2
  /\ \E q \in 1 .. Len(queries) - 1 :
       queries[q][2] = queries[q + 1][1] /\ queries[q][2] \in LogBlocks

\* C4: every block of [fromBlock, toBlock) that carries a matching log is in
\* the result, wherever the sub-range boundaries fall.
C4_Complete ==
  collectPc = "done" =>
    \A b \in LogBlocks : (fromBlock <= b /\ b < toBlock) => b \in ReturnedBlocks

\* C4 witness: three sub-range queries, logs on the first block of the second
\* and of the third sub-range, both returned
C4_Witness ==
  /\ collectPc = "done"
  /\ Len(queries) = 3
  /\ queries[2][1] \in LogBlocks /\ queries[2][1] \in ReturnedBlocks
  /\ queries[3][1] \in LogBlocks /\ queries[3][1] \in ReturnedBlocks

\* C5: the span is half-open: every block number b returned satisfies
\* fromBlock <= b < toBlock, also when block toBlock itself carries a log.
C5_HalfOpenSpan ==
  collectPc = "done" =>
    \A b \in ReturnedBlocks : fromBlock <= b /\ b < toBlock

\* C22: collectBlockNumbers with maxBlockRangePerLogQuery <= 0 is rejected: it
\* ends with an error and issues no log query.
C22_SpanRejected ==
  maxBlockRangePerLogQuery <= 0 =>
    /\ queries = <<>>
    /\ collectPc \in {"loop", "thrown"}

\* C23: fromBlock < toBlock is validated before the first log query:
\* collectBlockNumbers called with fromBlock >= toBlock ends with an error and
\* returns no result.
C23_RangeValidated ==
  fromBlock >= toBlock =>
    /\ collectPc # "done"
    /\ \A j \in 1 .. Len(progress) : progress[j].current # progress[j].total

\* the blocks a sub-range query covers: getLogs takes both ends as inclusive
Covered(query) == query[1] .. query[2]

\* C25: the sub-range queries partition the span: the query at cursor covers
\* exactly the blocks of [cursor, min(cursor + span, toBlock)), so each query
\* covers at most maxBlockRangePerLogQuery blocks, no block is covered by two
\* queries, and no query covers block toBlock.
C25_QueriesPartition ==
  /\ \A q \in 1 .. Len(queries) :
       /\ Cardinality(Covered(queries[q])) <= maxBlockRangePerLogQuery
       /\ toBlock \notin Covered(queries[q])
  /\ \A q, r \in 1 .. Len(queries) :
       q # r => Covered(queries[q]) \cap Covered(queries[r]) = {}

\* the current values of the progress events, in order
Currents == [j \in 1 .. Len(progress) |-> progress[j].current]

\* C35: collectBlockNumbers emits, before the sub-range query at each cursor,
\* a progress event with current = cursor - fromBlock and total = toBlock -
\* fromBlock, and after the last query one event with current = total; so for
\* fromBlock < toBlock the currents are strictly increasing, every current is
\* <= total, and current = total occurs exactly once, as the last event.
C35_ScannerProgress ==
  /\ \A j \in 1 .. Len(progress) :
       /\ progress[j].key = "collectBlockNumbers"
       /\ progress[j].total = toBlock - fromBlock
       /\ progress[j].current <= progress[j].total
  /\ Len(progress) = Len(queries) + (IF collectPc = "done" THEN 1 ELSE 0)
  /\ \A j \in 1 .. Len(queries) :
       /\ progress[j].current = queries[j][1] - fromBlock
       /\ progress[j].current < progress[j].total
  /\ \A j \in 1 .. Len(progress) - 1 : progress[j].current < progress[j + 1].current
  /\ collectPc = "done" =>
       /\ progress[Len(progress)].current = toBlock - fromBlock
       /\ {j \in 1 .. Len(progress) : progress[j].current = progress[j].total}
            = {Len(progress)}
       /\ progress[1].current = 0

\* blocks 8 to 12 in sub-ranges of 3: the events 0, 3 and then 4 of 4
C35_Witness ==
  /\ collectPc = "done"
  /\ fromBlock = 8 /\ toBlock = 12
  /\ maxBlockRangePerLogQuery = 3
  /\ Currents = <<0, 3, 4>>
  /\ \A j \in 1 .. 3 : progress[j].total = 4

\* the step of a sub-range query that fails: it is issued and gathers nothing
QueryFails == queries' # queries /\ currentBlock' = currentBlock

\* C38: a failing sub-range query makes collectBlockNumbers fail at once: the
\* failed range is not retried, no later sub-range is queried, no 100%
\* progress event is emitted and no block list, partial or not, is returned.
C38_QueryFailurePropagates ==
  /\ [][QueryFails =>
          /\ collectPc' = "thrown"
          /\ uniqueBlockNumbers' = <<>>
          /\ allBlockNumbers' = allBlockNumbers]_vars
  /\ [][collectPc # "thrown"]_vars
  /\ [](collectPc = "thrown" =>
          /\ uniqueBlockNumbers = <<>>
          /\ queries # <<>>
          /\ queries[Len(queries)][1] = currentBlock
          /\ \A q \in 1 .. Len(queries) - 1 : queries[q][1] < currentBlock
          /\ Len(progress) = Len(queries)
          /\ \A j \in 1 .. Len(progress) : progress[j].current < progress[j].total)

\* the second of three sub-range queries failed: the blocks the first had
\* found are not returned and the third sub-range was never queried
C38_Witness ==
  /\ collectPc = "thrown"
  /\ Len(queries) = 2
  /\ allBlockNumbers # <<>>
  /\ uniqueBlockNumbers = <<>>
  /\ currentBlock + maxBlockRangePerLogQuery < toBlock

SpecWatchInit == WatchInit /\ TraceIdle /\ CollectIdle /\ progress = <<>> /\ UtilIdle

SpecWatch == SpecWatchInit /\ [][WatchNext]_vars

\* the watcher with its subscription failing: no log is delivered
SpecFeed == SpecWatchInit /\ [][FeedNext]_vars

\* every handler that was started goes on: the awaited callbacks and timers settle
SpecFeedFair ==
  /\ SpecFeed
  /\ WF_vars(WatchStart)
  /\ WF_vars(ErrorReported)
  /\ WF_vars(ReconnectTimer)
  /\ WF_vars(ReconnectSettles)

(***************************************************************************)
(* Claims about watch                                                      *)
(***************************************************************************)
\* the recorded invocation of onLogs and the record of its running or last check
Watched == handlers[Observed]
Check == handlers[Observed].obs

\* the step in which a read of the recorded check returns
ReadReturned ==
  /\ handlers[Observed].pc = "reading"
  /\ handlers'[Observed].pc # "reading"
  /\ handlers'[Observed].obs.failures = handlers[Observed].obs.failures
  /\ handlers'[Observed].obs.readValue # <<>>

\* the value that read returned equals current.value
ReadIsCurrent ==
  IsDefined(currentValue) /\ currentValue.value = handlers'[Observed].obs.readValue

\* that step called onNewValue
CallbackInvoked ==
  /\ handlers'[Observed].pc = "callback"
  /\ handlers'[Observed].obs.notifs = handlers[Observed].obs.notifs + 1

\* 1000, 2000, ..., 1000 * k
LinearWaits(k) == [n \in 1 .. k |-> 1000 * n]

\* C6: whenever onNewValue(prev, curr) is invoked, prev is undefined or
\* prev.value differs from curr.value; a check whose read equals current.value
\* invokes no callback and leaves current, value and block number, unchanged.
C6_OnlyRealChanges ==
  /\ [](Watched.pc = "callback" =>
          \/ ~IsDefined(Check.call.prev)
          \/ Check.call.prev.value # Check.call.curr.value)
  /\ [][(ReadReturned /\ ReadIsCurrent) =>
          /\ ~CallbackInvoked
          /\ handlers'[Observed].pc = "next"
          /\ handlers'[Observed].obs.notifs = 0
          /\ currentValue' = currentValue]_vars

\* a callback is running whose prev is a defined value
C6_Witness ==
  /\ Watched.pc = "callback"
  /\ IsDefined(Check.call.prev)
  /\ Check.call.prev.value # Check.call.curr.value

\* C7: when a supplied filter returns false for a genuine value change, the
\* callback is not invoked and current is left unmodified: it still holds the
\* old value, not the one read.
C7_FilterRejectKeepsCurrent ==
  [][(ReadReturned /\ handlers'[Observed].obs.verdict = "reject") =>
       /\ filterGiven
       /\ ~ReadIsCurrent
       /\ ~CallbackInvoked
       /\ handlers'[Observed].obs.notifs = 0
       /\ currentValue' = currentValue
       /\ currentValue'.value # handlers'[Observed].obs.readValue]_vars

\* a check ended on the filter's rejection of a value that is not the current one
C7_Witness ==
  /\ Watched.pc = "next"
  /\ Check.end = "filtered"
  /\ Check.verdict = "reject"
  /\ IsDefined(currentValue)
  /\ currentValue.value # Check.readValue
  /\ Check.notifs = 0

\* C8, as the design notes have it: current is advanced to the newly read value
\* unconditionally, so after the filter rejects a candidate change current
\* holds the rejected value.
C8_AdvancedUnconditionally ==
  [][(ReadReturned /\ handlers'[Observed].obs.verdict = "reject") =>
       currentValue'.value = handlers'[Observed].obs.readValue]_vars

\* C8, amended: a read that returns a value other than current.value advances
\* current exactly when the filter is absent or returns true, and then in the
\* step that calls onNewValue(previous current, new result); when the filter
\* returns false or throws, current keeps the value it had.
C8_AdvanceIsFilterGated ==
  [][(ReadReturned /\ ~ReadIsCurrent) =>
       IF handlers'[Observed].obs.verdict \in {"none", "accept"}
       THEN /\ currentValue'.value = handlers'[Observed].obs.readValue
            /\ currentValue'.blockNumber = toString(handlers[Observed].blockNumber)
            /\ CallbackInvoked
            /\ handlers'[Observed].obs.call = [prev |-> currentValue, curr |-> currentValue']
       ELSE /\ currentValue' = currentValue
            /\ ~CallbackInvoked]_vars

\* the filter accepted a change: current is the new result and the callback runs
C8_Witness ==
  /\ Watched.pc = "callback"
  /\ Check.verdict = "accept"
  /\ Check.call.curr = currentValue
  /\ IsDefined(Check.call.prev)
  /\ Check.replaced

Checking(h) == handlers[h].pc \in {"reading", "waiting", "callback"}

\* the logs are in non-decreasing order of block number
Ascending(queue) == \A j \in 1 .. Len(queue) - 1 : queue[j] <= queue[j + 1]

\* C27: within one delivered batch the logs are checked in non-decreasing
\* block-number order whatever the order of delivery, and one at a time: the
\* logs still to check are kept in ascending order, none is lower than the
\* block being checked, and a read for the next log is issued only from the
\* head of the loop, when no check of that batch is running; while a check
\* runs (its retries, waits and callback included) the logs left stay as
\* they are, and a read issued after a wait is the retry of the same block.
C27_BatchInBlockOrder ==
  /\ [](\A h \in 1 .. MaxHandlers :
          /\ Ascending(handlers[h].queue)
          /\ \A j \in 1 .. Len(handlers[h].queue) : handlers[h].queue[j] # NullBlock
          /\ Checking(h) =>
               \A j \in 1 .. Len(handlers[h].queue) :
                 handlers[h].blockNumber <= handlers[h].queue[j])
  /\ [][\A h \in 1 .. MaxHandlers :
          /\ (handlers[h].pc # "reading" /\ handlers'[h].pc = "reading") =>
               \/ /\ handlers[h].pc = "next"
                  /\ handlers[h].queue # <<>>
                  /\ handlers'[h].blockNumber = Head(handlers[h].queue)
                  /\ handlers'[h].queue = Tail(handlers[h].queue)
                  /\ handlers'[h].retryCount = 0
               \/ /\ handlers[h].pc = "waiting"
                  /\ handlers'[h].blockNumber = handlers[h].blockNumber
                  /\ handlers'[h].queue = handlers[h].queue
                  /\ handlers'[h].retryCount = handlers[h].retryCount + 1
          /\ Checking(h) => handlers'[h].queue = handlers[h].queue]_vars

\* the check of block 9 is waiting for its retry while the log of block 10 of
\* the same batch is still to be checked
C27_Witness ==
  /\ Watched.pc = "waiting"
  /\ Watched.blockNumber = 9
  /\ Watched.retryCount = 1
  /\ Watched.queue = <<10>>
  /\ Check.attempts = 2

\* C32: cooperative cancellation: once the cancel handle has been called no
\* new state read is started: the remaining logs of a batch being processed
\* are skipped, a check waiting in a retry delay does not retry, and a batch
\* delivered later is ignored; a read in progress at the cancel is not
\* interrupted.
C32_CooperativeCancel ==
  /\ [][~isWatching =>
          \A h \in 1 .. MaxHandlers :
            /\ handlers'[h].pc = "reading" => handlers'[h] = handlers[h]
            /\ handlers'[h].obs.attempts <= handlers[h].obs.attempts
            /\ handlers[h].pc = "free" => handlers'[h] = FreeHandler
            /\ (handlers[h].pc = "next" /\ handlers'[h] # handlers[h]) =>
                 /\ handlers'[h].pc \in {"next", "free"}
                 /\ handlers'[h].pc = "next" =>
                      /\ handlers[h].queue # <<>>
                      /\ handlers'[h].queue = Tail(handlers[h].queue)
            /\ (handlers[h].pc = "waiting" /\ handlers'[h] # handlers[h]) =>
                 /\ handlers'[h].pc = "next"
                 /\ handlers'[h].obs.end \in {"none", "stopped"}]_vars
  /\ [][(isWatching /\ ~isWatching') => handlers' = handlers]_vars
  /\ []((~isWatching /\ Watched.pc = "next" /\ Check.end = "stopped") =>
          /\ Len(Check.waits) = Check.attempts
          /\ Check.notifs = 0
          /\ Check.errs = 0)

\* the cancel came during the first retry delay of the check of block 9: the
\* check has ended without a second read and the log of block 10 is left
C32_Witness ==
  /\ ~isWatching
  /\ Watched.pc = "next"
  /\ Check.end = "stopped"
  /\ Check.attempts = 1
  /\ Check.failures = 1
  /\ Check.waits = <<1000>>
  /\ Watched.queue = <<10>>

\* C33: once the cancel handle has been called the change callback is never
\* invoked again and current is never replaced again, also when a read was
\* in progress at the moment of the cancel and returns afterwards with a
\* changed value.
C33_SilentAfterCancel ==
  [][~isWatching =>
       /\ currentValue' = currentValue
       /\ \A h \in 1 .. MaxHandlers :
            handlers'[h].pc = "callback" => handlers[h].pc = "callback"]_vars

\* C34: notifications form a chain: the prev of each change notification is
\* the curr of the notification before it (for the first one it is what
\* current was at start: the initial value, or undefined), and current is
\* replaced only together with a notification, so that current always equals
\* the curr of the last notification.
C34_NotificationChain ==
  /\ []((watchPc = "watching" /\ IsDefined(lastNotified)) => currentValue = lastNotified)
  /\ [][(watchPc = "watching" /\ currentValue' # currentValue) =>
          /\ lastNotified' = currentValue'
          /\ \E h \in 1 .. MaxHandlers :
               handlers[h].pc = "reading" /\ handlers'[h].pc = "callback"]_vars
  /\ [][(\E h \in 1 .. MaxHandlers :
            handlers[h].pc # "callback" /\ handlers'[h].pc = "callback") =>
          /\ currentValue' # currentValue
          /\ lastNotified' = currentValue']_vars
  /\ [][CallbackInvoked =>
          /\ handlers'[Observed].obs.call.prev
               = (IF IsDefined(lastNotified) THEN lastNotified ELSE currentValue)
          /\ handlers'[Observed].obs.call.curr = lastNotified']_vars
  /\ [][lastNotified' # lastNotified =>
          \E h \in 1 .. MaxHandlers :
            handlers[h].pc = "reading" /\ handlers'[h].pc = "callback"]_vars

\* a notification whose prev is the result of block 10, which an earlier
\* notification installed (current was of block 9 or undefined at start)
C34_Witness ==
  /\ Watched.pc = "callback"
  /\ Check.call.prev.blockNumber = toString(10)
  /\ Check.call.curr = lastNotified
  /\ Check.call.curr.blockNumber = toString(9)
  /\ currentValue = lastNotified

\* C28: the block number of current never decreases: every replacement of
\* current installs a result whose block number is greater than or equal to
\* that of the value it replaces, over any sequence of delivered batches.
C28_CurrentBlockMonotonic ==
  [][(IsDefined(currentValue) /\ currentValue' # currentValue) =>
       Number(currentValue'.blockNumber) >= Number(currentValue.blockNumber)]_vars

\* C29: at most one checkValueChange (with its retry waits and its callback)
\* is in progress at any time, also when a batch is delivered while the checks
\* of an earlier batch are still awaiting a read or a retry delay.
C29_OneCheckAtATime ==
  Cardinality({h \in 1 .. MaxHandlers : Checking(h)}) <= 1

\* C30: the watcher holds at most one subscription that has not been torn
\* down: whenever it opens one, at start or on reconnect, every subscription
\* it opened earlier has been unsubscribed.
C30_OneSubscription ==
  [][openSubs' # openSubs /\ openSubs' \ openSubs # {} => openSubs = {}]_vars

(***************************************************************************)
(* Claims about the subscription's error path                              *)
(***************************************************************************)
\* what the handler of subscription error number id did, in order
TrailOf(id) ==
  LET mine == SelectSeq(feedEvents, LAMBDA ev : ev.id = id)
  IN [j \in 1 .. Len(mine) |-> <<mine[j].kind, mine[j].ms>>]

\* error handler, 5000 ms wait, subscription opened, reconnect callback
ReconnectTrail ==
  <<(<<"handleError", 0>>), (<<"wait", 5000>>), (<<"open", 0>>), (<<"onReconnect", 0>>)>>

IsPrefix(s, t) == Len(s) <= Len(t) /\ s = SubSeq(t, 1, Len(s))

\* C11: while the watcher is live, every subscription error is followed, in
\* this order, by the error handler, a wait of 5000 ms, the opening of a
\* subscription and the reconnect callback, whatever the number of errors
\* before it: each handler does these steps in this order and nothing else,
\* and goes through all of them unless the watcher is stopped.
C11_ReconnectSequence ==
  /\ [](\A id \in 1 .. subErrors :
          /\ TrailOf(id) # <<>>
          /\ IsPrefix(TrailOf(id), ReconnectTrail))
  /\ \A id \in 1 .. MaxSubErrors :
       (subErrors >= id) ~> (TrailOf(id) = ReconnectTrail \/ ~isWatching)

\* the watcher is live and the third subscription error in a row was followed
\* by all four steps, as were the two before it
C11_Witness ==
  /\ isWatching
  /\ subErrors = 3
  /\ \A id \in 1 .. 3 : TrailOf(id) = ReconnectTrail

\* the entries of feedEvents that open a subscription or call opts.onReconnect
Reconnections(events) ==
  {j \in 1 .. Len(events) : events[j].kind \in {"open", "onReconnect"}}

\* C31: STOPPED is final: once the cancel handle has been called the watcher
\* stays stopped, never opens a subscription again and never invokes the
\* reconnect callback, also when the cancel comes while the error handler is
\* running for a subscription error or during the 5000 ms reconnect wait: the
\* handlers that were under way end without reconnecting.
C31_StoppedIsFinal ==
  /\ [][~isWatching =>
          /\ ~isWatching'
          /\ openSubs' \subseteq openSubs
          /\ unWatcher' = unWatcher
          /\ Reconnections(feedEvents') = Reconnections(feedEvents)
          /\ \A e \in 1 .. MaxErrHandlers :
               errHandlers'[e].pc = "onReconnect" => errHandlers[e].pc = "onReconnect"]_vars
  /\ [][(isWatching /\ ~isWatching') =>
          /\ unWatcher' = 0
          /\ openSubs' = openSubs \ {unWatcher}
          /\ UNCHANGED feedVars]_vars
  /\ [][\A e \in 1 .. MaxErrHandlers :
          (~isWatching /\ errHandlers[e].pc \in {"handleError", "wait"}
             /\ errHandlers'[e] # errHandlers[e]) => errHandlers'[e] = FreeErrHandler]_vars

\* the cancel came while the handler of the first subscription error was in
\* its reconnect wait and that of the second in the error handler: both have
\* ended, no subscription was opened and no reconnect callback invoked
C31_Witness ==
  /\ ~isWatching
  /\ subErrors = 2
  /\ TrailOf(1) = <<(<<"handleError", 0>>), (<<"wait", 5000>>)>>
  /\ TrailOf(2) = <<(<<"handleError", 0>>)>>
  /\ \A e \in 1 .. MaxErrHandlers : errHandlers[e] = FreeErrHandler
  /\ openSubs = {}

\* C12: after the cancel handle has been called, isWatching is false and every
\* subscription the watcher ever opened has been unsubscribed, also when
\* reconnects happened before the cancel.
C12_CancelTearsDown ==
  (watchPc = "watching" /\ ~isWatching) => openSubs = {}

\* C13: no failure escapes the watcher: a failure of a read, of the filter, of
\* the change callback, of the error callback or of the reconnect callback is
\* caught inside the watcher; none leaves the log handler or the
\* subscription-error handler as an uncaught rejection.
C13_NoFailureEscapes == escaped = 0

\* C14: if the change callback throws or rejects, the error is passed to the
\* error handler once, current keeps the newly installed value, the check is
\* not retried (no wait, no further read of that block), and the remaining
\* logs of the batch are still checked.
C14_CallbackIsolation ==
  /\ [][(handlers[Observed].pc = "callback" /\ handlers'[Observed].obs.cbThrew) =>
          /\ handlers'[Observed].obs.errs = handlers[Observed].obs.errs + 1
          /\ currentValue' = currentValue
          /\ isWatching' = isWatching
          /\ handlers'[Observed].pc = "next"
          /\ handlers'[Observed].obs.attempts = handlers[Observed].obs.attempts
          /\ handlers'[Observed].obs.waits = handlers[Observed].obs.waits
          /\ handlers'[Observed].queue = handlers[Observed].queue]_vars
  /\ [](Check.cbThrew =>
          /\ Watched.pc = "next"
          /\ Check.errs = 1
          /\ Check.notifs = 1
          /\ Check.replaced
          /\ Watched.queue # <<>> => ENABLED CheckStart)

\* the callback threw for the first log of a batch of two: one error call,
\* current holds the value that was read, the second log is still to be checked
C14_Witness ==
  /\ Watched.pc = "next"
  /\ Check.cbThrew
  /\ Check.errs = 1
  /\ Check.attempts = 1
  /\ currentValue.value = Check.readValue
  /\ Watched.queue # <<>>
  /\ isWatching

BlockNumbersOf(rows) == [j \in 1 .. Len(rows) |-> rows[j].blockNumber]

\* what trace(config, list) returns when the read of position p of list ends
\* as readLog[p] says
ListTraceResult(list) ==
  TraceFinal([p \in 1 .. Len(list) |-> ReadRow(list[p], readLog[p])], isDedup)

\* C16: trace called with a block list skips the Scanner: it issues no log
\* query, emits no collectBlockNumbers progress event, and samples exactly the
\* supplied blocks in the supplied order.
C16_ListSkipsScanner ==
  blockNumbersOrOnProgress.isArray =>
    /\ collectPc = "idle"
    /\ queries = <<>>
    /\ \A j \in 1 .. Len(progress) : progress[j].key # "collectBlockNumbers"
    /\ tracePc \in {"loop", "await", "done"} =>
         /\ blockNumbers = blockNumbersOrOnProgress.list
         /\ Len(readLog) = Len(blockNumbersOrOnProgress.list)
         /\ Len(allValues) <= Len(blockNumbersOrOnProgress.list)
         /\ BlockNumbersOf(allValues)
              = SubSeq(blockNumbersOrOnProgress.list, 1, Len(allValues))
    /\ tracePc = "done" =>
         /\ BlockNumbersOf(allValues) = blockNumbersOrOnProgress.list
         /\ \A p \in 1 .. Len(readLog) : readLog[p].read

\* the list 10, 9, 10 was passed and sampled in this order, on a chain whose
\* scan would have found logs
C16_Witness ==
  /\ blockNumbersOrOnProgress = ArrayArg(<<toString(10), toString(9), toString(10)>>)
  /\ tracePc = "done"
  /\ BlockNumbersOf(allValues) = <<toString(10), toString(9), toString(10)>>
  /\ \E b \in Blocks : fromBlock <= b /\ b < toBlock /\ logs[b] > 0
  /\ queries = <<>>

\* C17: trace(config) is the Scanner then the Sampler: it samples the list
\* collectBlockNumbers(config) returned, only after the scan has ended, and
\* returns what trace(config, that list) returns for the same reads; when the
\* scan fails so does trace.
C17_ScanThenSample ==
  ~blockNumbersOrOnProgress.isArray =>
    /\ tracePc \in {"loop", "await", "done"} =>
         /\ collectPc = "done"
         /\ blockNumbers = uniqueBlockNumbers
    /\ tracePc = "done" =>
         /\ blockNumbers = uniqueBlockNumbers
         /\ BlockNumbersOf(allValues) = uniqueBlockNumbers
         /\ traceResult = ListTraceResult(uniqueBlockNumbers)
    /\ tracePc = "thrown" =>
         \/ collectPc = "thrown"
         \/ collectPc = "done" /\ chunkThrows(concurrentCallBatchSize)
    /\ collectPc = "thrown" => tracePc \in {"collecting", "thrown"}

\* a scan of three sub-range queries returned 9 and 10, one of the two reads
\* failed, and trace returned the row of the other
C17_Witness ==
  /\ ~blockNumbersOrOnProgress.isArray
  /\ tracePc = "done"
  /\ Len(queries) = 3
  /\ uniqueBlockNumbers = <<toString(9), toString(10)>>
  /\ readLog[1].ok /\ ~readLog[2].ok
  /\ BlockNumbersOf(traceResult) = <<toString(9)>>

\* C21: trace with concurrentCallBatchSize <= 0 is rejected with an error and
\* issues no state read, for every block list, the empty one included, and
\* whether the list was passed or scanned: it never returns a result, and it
\* throws as soon as the list to sample is known.
C21_BatchSizeRejected ==
  /\ [](concurrentCallBatchSize <= 0 =>
          /\ tracePc \in {"entry", "collecting", "thrown"}
          /\ tracePc = "collecting" => ~blockNumbersOrOnProgress.isArray
          /\ IssuedReads = {}
          /\ readLog = <<>> /\ requests = <<>> /\ allValues = <<>> /\ chunks = <<>>
          /\ traceResult = <<>>
          /\ \A j \in 1 .. Len(progress) : progress[j].key # "trace")
  /\ [][(concurrentCallBatchSize <= 0 /\ tracePc' # tracePc) =>
          IF tracePc = "entry" /\ ~blockNumbersOrOnProgress.isArray
          THEN tracePc' = "collecting"
          ELSE tracePc' = "thrown"]_vars

\* trace of the empty block list with a batch size of 0 has thrown
C21_Witness ==
  /\ tracePc = "thrown"
  /\ concurrentCallBatchSize = 0
  /\ blockNumbersOrOnProgress = ArrayArg(<<>>)
  /\ readLog = <<>>

SpecUtilInit ==
  UtilInit /\ TraceIdle /\ CollectIdle /\ WatchIdle /\ progress = <<>>

SpecUtil == SpecUtilInit /\ [][UtilNext]_vars

(***************************************************************************)
(* Claims about chunk and dedup                                            *)
(***************************************************************************)
RECURSIVE Concat(_)
\* the chunks joined in order
Concat(seqs) == IF seqs = <<>> THEN <<>> ELSE Head(seqs) \o Concat(Tail(seqs))

\* C18: chunk(array, k) for k > 0 returns; the chunks joined in order are the
\* input, every chunk but the last has length k, the last has a length in
\* 1 .. k (no chunk is empty; an empty input gives no chunk).
C18_ChunkLossless ==
  /\ (argSize > 0 /\ utilPc \notin {"call", "deduped"}) => utilPc = "chunked"
  /\ utilPc = "chunked" =>
       /\ argSize > 0
       /\ Concat(returned) = argArray
       /\ \A j \in 1 .. Len(returned) - 1 : Len(returned[j]) = argSize
       /\ \A j \in 1 .. Len(returned) : Len(returned[j]) \in 1 .. argSize
       /\ argArray = <<>> <=> returned = <<>>

\* four elements in chunks of three: a chunk of three and the remainder of one
C18_Witness ==
  /\ utilPc = "chunked"
  /\ argSize = 3
  /\ argArray = <<0, 1, 2, 0>>
  /\ returned = <<(<<0, 1, 2>>), (<<0>>)>>

\* C19: chunk(array, k) with k <= 0 throws for every input, the empty array
\* included: it returns no chunks and leaves the input as it was.
C19_ChunkRejectsSize ==
  /\ []((argSize <= 0 /\ utilPc \notin {"call", "deduped"}) =>
          utilPc = "chunkThrown" /\ returned = <<>>)
  /\ [][(utilPc = "call" /\ argSize <= 0 /\ utilPc' # "deduped") =>
          /\ utilPc' = "chunkThrown"
          /\ returned' = <<>>
          /\ argArray' = argArray]_vars

\* chunk of the empty array with size 0 has thrown
C19_Witness ==
  /\ utilPc = "chunkThrown"
  /\ argSize = 0
  /\ argArray = <<>>

\* the indices of array that dedup keeps: the first, and every other whose
\* element eq does not call equal to the element just before it in the input
KeptIndices(array, eq) ==
  {i \in 1 .. Len(array) : i = 1 \/ ~eq[array[i], array[i - 1]]}

\* the n-th smallest member of the set S of indices
NthOf(S, n) == CHOOSE i \in S : Cardinality({j \in S : j <= i}) = n

\* C20: dedup(seq, eq) returns, in order, seq[0] and every seq[i] (i > 0) for
\* which eq(seq[i], seq[i-1]) is false: the comparison is with the previous
\* input element, not the last kept one; so the first element survives, of two
\* input-adjacent equal elements the second does not, and an element equal to
\* an earlier, non-adjacent element survives when it differs from the one
\* before it.
C20_DedupAgainstPrevious ==
  utilPc = "deduped" =>
    LET K == KeptIndices(argArray, argCompareFn)
    IN /\ Len(returned) = Cardinality(K)
       /\ \A n \in 1 .. Len(returned) : returned[n] = argArray[NthOf(K, n)]
       /\ argArray # <<>> => returned[1] = argArray[1]
       /\ \A i \in 2 .. Len(argArray) :
            argCompareFn[argArray[i], argArray[i - 1]] <=> i \notin K

\* with the comparison 'differ by at most 1', 0, 1, 2, 0 gives 0, 0: 2 is
\* dropped though it is not near the last kept element 0, and the second 0
\* survives though it equals the first
C20_Witness ==
  /\ utilPc = "deduped"
  /\ argCompareFn = Near
  /\ argArray = <<0, 1, 2, 0>>
  /\ returned = <<0, 0>>

====
